---- MODULE Spec2Model ----
(***************************************************************************)
(* Model of _aish/clean_terminal_log.py: a virtual terminal buffer (Cursor *)
(* and Buffer classes) driven by the scan loop of clean_script_log, which  *)
(* replays a captured terminal stream and writes the flattened buffer.     *)
(*                                                                         *)
(* A unit of the stream is one character, written as a TLA+ string: the    *)
(* control codes are "ESC" "BS" "CR" "LF" "BEL" "NUL", every other unit is *)
(* the character itself.  A Python str is a sequence of units.  Indices i, *)
(* row, col are 0-based as in the source; At(s, k) reads s[k].             *)
(***************************************************************************)
EXTENDS Integers, Sequences, FiniteSets, TLC

VARIABLES pc, line, i, lines, row, col, saved_row, saved_col, output, nchunks, fed

vars == <<pc, line, i, lines, row, col, saved_row, saved_col, output, nchunks, fed>>

(* ---------------- bounds of the exploration ---------------- *)
\* number of chunks the input iterable yields before it is exhausted
MaxChunks == 5
\* number of units the recorded input of SpecIdentity holds at most
MaxFed == 5

(* ---------------- character classes ---------------- *)
Digits == {"0", "1", "2", "3"}

\* [@-_] of the regular expression, restricted to the alphabet in use
Introducers == {"A", "B", "C", "D", "H", "J", "K", "[", "]"}

\* [0-?]
ParamBytes == Digits \cup {";"}

\* [ -/]
IntermediateBytes == {" "}

\* [@-~]
FinalBytes == Introducers \cup {"a", "b", "m", "s", "u"}

Controls == {"ESC", "BS", "CR", "LF", "BEL", "NUL"}

Printable == {"a", "b"}

(* ---------------- Python primitives ---------------- *)
Max(a, b) == IF a > b THEN a ELSE b

Min(a, b) == IF a < b THEN a ELSE b

At(s, k) == s[k + 1]

\* slice bound normalisation of s[lo:hi] for a sequence of length n
SliceIndex(k, n) == IF k < 0 THEN Max(0, n + k) ELSE Min(k, n)

\* s[lo:hi]
PySlice(s, lo, hi) == SubSeq(s, SliceIndex(lo, Len(s)) + 1, SliceIndex(hi, Len(s)))

\* s[:k]
SliceTo(s, k) == PySlice(s, 0, k)

\* s[k:]
SliceFrom(s, k) == PySlice(s, k, Len(s))

\* str.isdigit() on the bytes the regular expression lets through
IsDigit(s) == Len(s) > 0 /\ \A k \in 1..Len(s) : s[k] \in Digits

DigitVal(d) == CASE d = "0" -> 0 [] d = "1" -> 1 [] d = "2" -> 2 [] d = "3" -> 3

RECURSIVE ParseInt(_)
\* int(s) for a string of decimal digits
ParseInt(s) == IF s = <<>> THEN 0
               ELSE 10 * ParseInt(SubSeq(s, 1, Len(s) - 1)) + DigitVal(s[Len(s)])

RECURSIVE Split(_, _)
\* s.split(sep): the list of the parts between the separators
Split(s, sep) ==
  IF \E k \in 1..Len(s) : s[k] = sep
  THEN LET k == CHOOSE k \in 1..Len(s) : s[k] = sep /\ \A j \in 1..(k - 1) : s[j] # sep
       IN <<SubSeq(s, 1, k - 1)>> \o Split(SubSeq(s, k + 1, Len(s)), sep)
  ELSE <<s>>

RECURSIVE JoinLF(_)
\* '\n'.join(ls)
JoinLF(ls) == IF ls = <<>> THEN <<>>
              ELSE IF Len(ls) = 1 THEN ls[1]
              ELSE ls[1] \o <<"LF">> \o JoinLF(Tail(ls))

RECURSIVE SkipWhile(_, _, _)
\* first index k >= from with s[k] outside cls (or len(s)): a greedy cls*
SkipWhile(s, from, cls) ==
  IF from < Len(s) /\ At(s, from) \in cls THEN SkipWhile(s, from + 1, cls) ELSE from

\* ansi_escape.match(s, k): the end index of the match, or -1 for no match.
\* The three classes after the introducer are pairwise disjoint, so the
\* greedy scan decides the match and backtracking cannot change it.
MatchEnd(s, k) ==
  IF k + 1 < Len(s) /\ At(s, k) = "ESC" /\ At(s, k + 1) \in Introducers
  THEN LET p == SkipWhile(s, k + 2, ParamBytes)
           q == SkipWhile(s, p, IntermediateBytes)
       IN IF q < Len(s) /\ At(s, q) \in FinalBytes THEN q + 1 ELSE -1
  ELSE -1

(* ---------------- Cursor ---------------- *)
\* a buffer value: the Buffer's lines, its Cursor's fields, and whether an
\* exception has been raised while operating on it
Buf == [lines |-> lines, row |-> row, col |-> col,
        saved_row |-> saved_row, saved_col |-> saved_col, exc |-> FALSE]

save_position(b) == [b EXCEPT !.saved_row = b.row, !.saved_col = b.col]

\* restore_position that forgets the column
restore_position_row_only(b) == [b EXCEPT !.row = b.saved_row]

restore_position(b) == [b EXCEPT !.row = b.saved_row, !.col = b.saved_col]

move_left(b, steps) == [b EXCEPT !.col = Max(0, b.col - steps)]

move_right(b, steps, max_col) == [b EXCEPT !.col = Min(max_col, b.col + steps)]

move_up(b, steps) == [b EXCEPT !.row = Max(0, b.row - steps)]

move_down(b, steps, max_row) == [b EXCEPT !.row = Min(max_row, b.row + steps)]

set_position(b, r, c) == [b EXCEPT !.row = r, !.col = c]

(* ---------------- Buffer ---------------- *)
\* while len(self.lines) <= row: self.lines.append('')
grow(ls, r) == IF Len(ls) <= r THEN ls \o [k \in 1..(r + 1 - Len(ls)) |-> <<>>] ELSE ls

\* ls[r] raises IndexError
IndexRaises(ls, r) == r >= Len(ls) \/ (r < 0 /\ -r > Len(ls))

\* the 1-based position of ls[r], negative r counting from the end
PyIndex(ls, r) == IF r < 0 THEN Len(ls) + r + 1 ELSE r + 1

\* the buffer after get_line(r): grown, or with the IndexError raised
get_line(b, r) ==
  IF b.exc THEN b
  ELSE LET g == grow(b.lines, r)
       IN [b EXCEPT !.lines = g, !.exc = IndexRaises(g, r)]

\* the value get_line(r) returns, on the buffer get_line(r) leaves
line_at(b, r) == b.lines[PyIndex(b.lines, r)]

set_line(b, r, content) ==
  IF b.exc THEN b
  ELSE LET g == grow(b.lines, r)
       IN IF IndexRaises(g, r) THEN [b EXCEPT !.lines = g, !.exc = TRUE]
          ELSE [b EXCEPT !.lines = [g EXCEPT ![PyIndex(g, r)] = content]]

delete_to_end_of_line(b) ==
  LET g == get_line(b, b.row)
  IN IF g.exc THEN g ELSE set_line(g, g.row, SliceTo(line_at(g, g.row), g.col))

delete_from_start_of_line(b) ==
  LET g == get_line(b, b.row)
  IN IF g.exc THEN g ELSE set_line(g, g.row, SliceFrom(line_at(g, g.row), g.col))

delete_line(b) ==
  LET g == set_line(b, b.row, <<>>)
  IN IF g.exc THEN g ELSE set_position(g, g.row, 0)

delete_to_end_of_screen(b) ==
  delete_to_end_of_line([b EXCEPT !.lines = SliceTo(b.lines, b.row + 1)])

delete_from_start_of_screen(b) ==
  delete_from_start_of_line(
    [b EXCEPT !.lines = [k \in 1..Max(0, b.row + 1) |-> <<>>]])

\* delete_screen that leaves the cursor where it was
delete_screen_keep_cursor(b) == [b EXCEPT !.lines = << <<>> >>]

delete_screen(b) == set_position([b EXCEPT !.lines = << <<>> >>], 0, 0)

\* move_cursor_left that reads the cursor's line first, as the other moves do
move_cursor_left_reading_line(b, steps) == move_left(get_line(b, b.row), steps)

move_cursor_left(b, steps) == move_left(b, steps)

move_cursor_right(b, steps) ==
  LET g == get_line(b, b.row)
  IN IF g.exc THEN g ELSE move_right(g, steps, Len(line_at(g, g.row)))

\* move_cursor_up that keeps the column whatever the destination line
move_cursor_up_no_reflow(b, steps) == get_line(move_up(b, steps), move_up(b, steps).row)

move_cursor_up(b, steps) ==
  LET u == move_up(b, steps)
      g == get_line(u, u.row)
  IN IF g.exc THEN g ELSE move_right(g, 0, Len(line_at(g, g.row)))

move_cursor_down(b, steps) ==
  LET d == move_down(b, steps, Len(b.lines) - 1)
      g == get_line(d, d.row)
  IN IF g.exc THEN g ELSE move_right(g, 0, Len(line_at(g, g.row)))

save_cursor_position(b) == save_position(b)

restore_cursor_position(b) == restore_position(b)

set_cursor_position(b, r, c) ==
  LET p == set_position(b, r, c)
      w == [p EXCEPT !.lines = grow(p.lines, p.row)]
      g == get_line(w, w.row)
  IN IF g.exc THEN g ELSE move_right(g, 0, Len(line_at(g, g.row)))

(* ---------------- the input iterable ---------------- *)
CSI(body) == <<"ESC", "[">> \o body

\* The chunks the input iterable yields in Spec.  clean_script_log takes
\* any iterable of str; each chunk here is one unit, one sequence, or a
\* sequence and the unit after it, and its dispatch does not depend on what
\* follows the chunk (an unterminated sequence is closed by the LF that ends
\* its line), so replaying the chunks gives the result of replaying the
\* same text delivered line by line.
Chunks ==
  { <<"a">>, <<"b">>, <<"LF">>, <<"BS">>, <<"CR">>, <<"BEL">>, <<"NUL">>,
    CSI(<<"A">>), CSI(<<"B">>), CSI(<<"C">>), CSI(<<"D">>),
    CSI(<<"2", "B">>), CSI(<<"2", "D">>),
    CSI(<<"s">>), CSI(<<"u">>),
    CSI(<<"K">>), CSI(<<"0", "K">>), CSI(<<"1", "K">>), CSI(<<"2", "K">>),
    CSI(<<"J">>), CSI(<<"0", "J">>), CSI(<<"1", "J">>), CSI(<<"2", "J">>),
    CSI(<<"0", ";", "0", "H">>), CSI(<<"2", ";", "2", "H">>),
    CSI(<<"3", ";", "1", "H">>), CSI(<<"H">>),
    CSI(<<"2", ";", "2", "H", "a">>),
    CSI(<<"3", "1", "m">>),
    <<"ESC", "LF">>,
    <<"ESC", "]", "a", "BEL">>, <<"ESC", "]", "a", "LF">>,
    <<"ESC", "]", "a", "BEL", "b">> }

\* The chunks of SpecIdentity: printable characters and LF only
PlainChunks ==
  { <<"a">>, <<"b">>, <<"LF">>, <<"a", "LF">>, <<"b", "LF">>,
    <<"a", "b">>, <<"b", "a">>, <<"a", "b", "LF">> }

(* ---------------- clean_script_log ---------------- *)
Init ==
  /\ pc = "scan"
  /\ line = <<>>
  /\ i = 0
  /\ lines = << <<>> >>
  /\ row = 0
  /\ col = 0
  /\ saved_row = 0
  /\ saved_col = 0
  /\ output = <<>>
  /\ nchunks = 0
  /\ fed = <<>>

\* the buffer fields take the values of b
SetBuf(b) ==
  /\ lines' = b.lines
  /\ row' = b.row
  /\ col' = b.col
  /\ saved_row' = b.saved_row
  /\ saved_col' = b.saved_col

BufUnchanged == UNCHANGED <<lines, row, col, saved_row, saved_col>>

\* the scan loop is inside a chunk: while i < len(line)
Scanning == pc = "scan" /\ i < Len(line)

\* the scan loop has left the chunk (or no chunk was fetched yet)
AtChunkEnd == pc = "scan" /\ i >= Len(line)

\* for line in input_stream: the iterable yields the next chunk; i = 0.
\* record tells whether the units handed over are kept in fed.
NextChunk(S, record) ==
  /\ AtChunkEnd
  /\ nchunks < MaxChunks
  /\ \E c \in S :
       /\ record => Len(fed) + Len(c) <= MaxFed
       /\ line' = c
       /\ fed' = IF record THEN fed \o c ELSE fed
  /\ i' = 0
  /\ nchunks' = nchunks + 1
  /\ BufUnchanged
  /\ UNCHANGED <<pc, output>>

\* a flatten that writes the joined lines without the trailing LF
Flatten_no_trailing_lf ==
  /\ AtChunkEnd
  /\ output' = Append(output, JoinLF(lines))
  /\ pc' = "done"
  /\ BufUnchanged
  /\ UNCHANGED <<line, i, nchunks, fed>>

\* the iterable is exhausted: output_stream.write('\n'.join(lines) + '\n')
Flatten ==
  /\ AtChunkEnd
  /\ output' = Append(output, JoinLF(lines) \o <<"LF">>)
  /\ pc' = "done"
  /\ BufUnchanged
  /\ UNCHANGED <<line, i, nchunks, fed>>

\* one iteration of the scan loop ends: the buffer is b and the index is
\* k, or an exception raised inside the try block reaches sys.exit(1)
Commit(b, k) ==
  /\ SetBuf(b)
  /\ IF b.exc THEN pc' = "exit1" /\ i' = i ELSE pc' = pc /\ i' = k
  /\ UNCHANGED <<line, output, nchunks, fed>>

\* line[i] == ESC and line[i + 1] == ']'
IsOsc == Scanning /\ At(line, i) = "ESC" /\ i + 1 < Len(line) /\ At(line, i + 1) = "]"

\* line[i] == ESC, not an OSC, and the regular expression matches at i
IsSeq == Scanning /\ At(line, i) = "ESC" /\ ~IsOsc /\ MatchEnd(line, i) # -1

\* match.group()
MatchGroup == SubSeq(line, i + 1, MatchEnd(line, i))

\* seq[2:-1]
Inner(seq) == PySlice(seq, 2, -1)

\* int(seq[2:-1]) if seq[2:-1].isdigit() else 1
Steps(seq) == IF IsDigit(Inner(seq)) THEN ParseInt(Inner(seq)) ELSE 1

EndsWith(seq, u) == seq[Len(seq)] = u

\* 'H' in seq
HasH(seq) == \E k \in 1..Len(seq) : seq[k] = "H"

\* the branch of the if/elif chain that takes seq
Handler(seq) ==
  IF EndsWith(seq, "D") THEN "D"
  ELSE IF EndsWith(seq, "C") THEN "C"
  ELSE IF EndsWith(seq, "A") THEN "A"
  ELSE IF EndsWith(seq, "B") THEN "B"
  ELSE IF EndsWith(seq, "s") THEN "s"
  ELSE IF EndsWith(seq, "u") THEN "u"
  ELSE IF EndsWith(seq, "K") THEN "K"
  ELSE IF EndsWith(seq, "J") THEN "J"
  ELSE IF HasH(seq) THEN "H"
  ELSE "none"

erase_in_line(b, seq) ==
  IF seq = CSI(<<"K">>) THEN delete_to_end_of_line(b)
  ELSE IF seq = CSI(<<"1", "K">>) THEN delete_from_start_of_line(b)
  ELSE IF seq = CSI(<<"2", "K">>) THEN delete_line(b)
  ELSE b

erase_in_screen(b, seq) ==
  IF seq = CSI(<<"J">>) THEN delete_to_end_of_screen(b)
  ELSE IF seq = CSI(<<"1", "J">>) THEN delete_from_start_of_screen(b)
  ELSE IF seq = CSI(<<"2", "J">>) THEN delete_screen(b)
  ELSE b

cursor_position(b, seq) ==
  LET parts == Split(Inner(seq), ";")
  IN IF Len(parts) = 2 /\ IsDigit(parts[1]) /\ IsDigit(parts[2])
     THEN set_cursor_position(b, ParseInt(parts[1]) - 1, ParseInt(parts[2]) - 1)
     ELSE b

\* the buffer after the branch h of the chain has handled seq
Dispatch(b, seq, h) ==
  CASE h = "D" -> move_cursor_left(b, Steps(seq))
    [] h = "C" -> move_cursor_right(b, Steps(seq))
    [] h = "A" -> move_cursor_up(b, Steps(seq))
    [] h = "B" -> move_cursor_down(b, Steps(seq))
    [] h = "s" -> save_cursor_position(b)
    [] h = "u" -> restore_cursor_position(b)
    [] h = "K" -> erase_in_line(b, seq)
    [] h = "J" -> erase_in_screen(b, seq)
    [] h = "H" -> cursor_position(b, seq)
    [] OTHER -> b

\* one action per branch of the chain: a matched sequence is handled and
\* i = match.end()
CursorLeft ==
  /\ IsSeq
  /\ Handler(MatchGroup) = "D"
  /\ Commit(Dispatch(Buf, MatchGroup, "D"), MatchEnd(line, i))

CursorRight ==
  /\ IsSeq
  /\ Handler(MatchGroup) = "C"
  /\ Commit(Dispatch(Buf, MatchGroup, "C"), MatchEnd(line, i))

CursorUp ==
  /\ IsSeq
  /\ Handler(MatchGroup) = "A"
  /\ Commit(Dispatch(Buf, MatchGroup, "A"), MatchEnd(line, i))

CursorDown ==
  /\ IsSeq
  /\ Handler(MatchGroup) = "B"
  /\ Commit(Dispatch(Buf, MatchGroup, "B"), MatchEnd(line, i))

SaveCursor ==
  /\ IsSeq
  /\ Handler(MatchGroup) = "s"
  /\ Commit(Dispatch(Buf, MatchGroup, "s"), MatchEnd(line, i))

RestoreCursor ==
  /\ IsSeq
  /\ Handler(MatchGroup) = "u"
  /\ Commit(Dispatch(Buf, MatchGroup, "u"), MatchEnd(line, i))

EraseInLine ==
  /\ IsSeq
  /\ Handler(MatchGroup) = "K"
  /\ Commit(Dispatch(Buf, MatchGroup, "K"), MatchEnd(line, i))

EraseInScreen ==
  /\ IsSeq
  /\ Handler(MatchGroup) = "J"
  /\ Commit(Dispatch(Buf, MatchGroup, "J"), MatchEnd(line, i))

CursorPosition ==
  /\ IsSeq
  /\ Handler(MatchGroup) = "H"
  /\ Commit(Dispatch(Buf, MatchGroup, "H"), MatchEnd(line, i))

OtherSequence ==
  /\ IsSeq
  /\ Handler(MatchGroup) = "none"
  /\ Commit(Dispatch(Buf, MatchGroup, "none"), MatchEnd(line, i))

RECURSIVE OscEnd_keep_bel(_, _)
\* an OSC scan that stops on the BEL and leaves it to the scan loop
OscEnd_keep_bel(s, k) ==
  IF k < Len(s) /\ At(s, k) # "BEL" THEN OscEnd_keep_bel(s, k + 1) ELSE k

RECURSIVE OscEnd_stop_at_lf(_, _)
\* an OSC scan that also stops on the LF that ends the line
OscEnd_stop_at_lf(s, k) ==
  IF k < Len(s) /\ At(s, k) \notin {"BEL", "LF"} THEN OscEnd_stop_at_lf(s, k + 1)
  ELSE IF k < Len(s) /\ At(s, k) = "BEL" THEN k + 1
  ELSE k

RECURSIVE OscEnd(_, _)
\* while i < len(line) and line[i] != BEL: i += 1; then one past the BEL
OscEnd(s, k) ==
  IF k < Len(s) /\ At(s, k) # "BEL" THEN OscEnd(s, k + 1)
  ELSE IF k < Len(s) /\ At(s, k) = "BEL" THEN k + 1
  ELSE k

OscSequence ==
  /\ IsOsc
  /\ Commit(Buf, OscEnd(line, i + 2))

\* an ESC that starts neither an OSC nor a match: i += 1
LoneEscape ==
  /\ Scanning
  /\ At(line, i) = "ESC"
  /\ ~IsOsc
  /\ MatchEnd(line, i) = -1
  /\ Commit(Buf, i + 1)

\* a backspace that only moves the cursor
backspace_move_only(b) == IF b.col > 0 THEN move_cursor_left(b, 1) ELSE b

backspace(b) ==
  IF b.col > 0
  THEN LET m == move_cursor_left(b, 1)
           g == get_line(m, m.row)
           c == line_at(g, g.row)
       IN IF g.exc THEN g
          ELSE set_line(g, g.row, SliceTo(c, g.col) \o SliceFrom(c, g.col + 1))
  ELSE b

Backspace ==
  /\ Scanning
  /\ At(line, i) = "BS"
  /\ Commit(backspace(Buf), i + 1)

\* a carriage return that moves the cursor to column 0
CarriageReturn_resets_column ==
  /\ Scanning
  /\ At(line, i) = "CR"
  /\ Commit([Buf EXCEPT !.col = 0], i + 1)

CarriageReturn ==
  /\ Scanning
  /\ At(line, i) = "CR"
  /\ Commit(Buf, i + 1)

line_feed(b) ==
  LET p == set_cursor_position(b, b.row + 1, 0)
  IN IF p.exc THEN p
     ELSE IF p.row >= Len(p.lines) THEN [p EXCEPT !.lines = Append(p.lines, <<>>)]
     ELSE p

LineFeed ==
  /\ Scanning
  /\ At(line, i) = "LF"
  /\ Commit(line_feed(Buf), i + 1)

Bell ==
  /\ Scanning
  /\ At(line, i) = "BEL"
  /\ Commit(Buf, i + 1)

Null ==
  /\ Scanning
  /\ At(line, i) = "NUL"
  /\ Commit(Buf, i + 1)

\* a literal write that does not advance the cursor
write_literal_no_advance(b, u) ==
  LET g == get_line(b, b.row)
      c == line_at(g, g.row)
  IN IF g.exc THEN g
     ELSE IF g.col < Len(c)
     THEN set_line(g, g.row, SliceTo(c, g.col) \o <<u>> \o SliceFrom(c, g.col + 1))
     ELSE set_line(g, g.row, c \o <<u>>)

write_literal(b, u) ==
  LET g == get_line(b, b.row)
      c == line_at(g, g.row)
      w == IF g.col < Len(c)
           THEN set_line(g, g.row, SliceTo(c, g.col) \o <<u>> \o SliceFrom(c, g.col + 1))
           ELSE set_line(g, g.row, c \o <<u>>)
  IN IF g.exc THEN g ELSE move_cursor_right(w, 1)

Literal ==
  /\ Scanning
  /\ At(line, i) \notin Controls
  /\ Commit(write_literal(Buf, At(line, i)), i + 1)

Next ==
  \/ NextChunk(Chunks, FALSE)
  \/ Flatten
  \/ OscSequence
  \/ CursorLeft
  \/ CursorRight
  \/ CursorUp
  \/ CursorDown
  \/ SaveCursor
  \/ RestoreCursor
  \/ EraseInLine
  \/ EraseInScreen
  \/ CursorPosition
  \/ OtherSequence
  \/ LoneEscape
  \/ Backspace
  \/ CarriageReturn
  \/ LineFeed
  \/ Bell
  \/ Null
  \/ Literal

Spec == Init /\ [][Next]_vars

\* replaying a stream of printable characters and LF, the input recorded
NextIdentity ==
  \/ NextChunk(PlainChunks, TRUE)
  \/ Flatten
  \/ LineFeed
  \/ Literal

SpecIdentity == Init /\ [][NextIdentity]_vars

TypeOK ==
  /\ pc \in {"scan", "done", "exit1"}
  /\ i \in 0..Len(line)
  /\ row \in Int /\ col \in Int
  /\ nchunks \in 0..MaxChunks

(* ---------------- properties ---------------- *)
\* the scan loop is about to dispatch the matched sequence seq
Dispatching(seq) == IsSeq /\ MatchGroup = seq

\* the scan loop is about to dispatch a matched sequence of branch h
DispatchingHandler(h) == IsSeq /\ Handler(MatchGroup) = h

\* the scan loop is about to dispatch the single unit u
DispatchingUnit(u) == Scanning /\ At(line, i) = u

\* the step leaves lines and cursor as b has them
BecomesBuf(b) == lines' = b.lines /\ row' = b.row /\ col' = b.col

\* the line the cursor row addresses (an empty one when the buffer has to
\* grow to reach it) and its position in the grown buffer
CurPos == PyIndex(grow(lines, row), row)

CurLine == grow(lines, row)[CurPos]

\* every line the buffer has, except the one at position p, is kept
OthersKept(p) ==
  /\ Len(lines') >= Len(lines)
  /\ \A k \in 1..Len(lines) : k # p => lines'[k] = lines[k]

\* s without its p-th unit (1-based), s itself when it has none there
RemoveAt(s, p) ==
  IF p >= 1 /\ p <= Len(s) THEN SubSeq(s, 1, p - 1) \o SubSeq(s, p + 1, Len(s)) ELSE s

\* C1: clean_script_log never exits with an error, whatever the input
C1_NoErrorExit == pc # "exit1"

\* C2: the cursor's row and column are never negative
C2_CursorNonNegative == row >= 0 /\ col >= 0

\* the first chunk was ESC[r;cH followed by one printable unit, and it has
\* been processed on the fresh buffer
PositionedThenWritten ==
  /\ pc # "exit1"
  /\ nchunks = 1
  /\ Len(line) >= 4
  /\ i = Len(line)
  /\ line[Len(line)] \in Printable
  /\ MatchEnd(line, 0) = Len(line) - 1
  /\ line[2] = "["
  /\ line[Len(line) - 1] = "H"
  /\ LET parts == Split(PySlice(line, 2, -2), ";")
     IN /\ Len(parts) = 2
        /\ IsDigit(parts[1]) /\ ParseInt(parts[1]) >= 1
        /\ IsDigit(parts[2]) /\ ParseInt(parts[2]) >= 1

\* C3: on a fresh buffer ESC[r;cH then X leaves at least r lines, X at row
\* index r-1 and column index c-1, and every earlier row empty
C3_PositionSetWithGrowth ==
  PositionedThenWritten =>
    LET parts == Split(PySlice(line, 2, -2), ";")
        r == ParseInt(parts[1])
        c == ParseInt(parts[2])
    IN /\ Len(lines) >= r
       /\ Len(lines[r]) >= c
       /\ lines[r][c] = line[Len(line)]
       /\ \A k \in 1..(r - 1) : lines[k] = <<>>

\* C4: an input of printable characters and LF only is reproduced: the
\* final lines joined with LF are the input, the one write is input + LF
C4_Identity ==
  pc = "done" => JoinLF(lines) = fed /\ output = << fed \o <<"LF">> >>

\* a run over a recorded input of several lines has completed
C4_Witness ==
  /\ pc = "done"
  /\ Len(fed) >= 4
  /\ Len(lines) >= 2
  /\ \E k \in 1..Len(lines) : Len(lines[k]) >= 2

\* C5: the saved position is written only by ESC[s, which stores the
\* cursor, and ESC[u sets the cursor to exactly the saved position
C5_SaveRestoreRoundTrip ==
  [][ /\ DispatchingHandler("s") => saved_row' = row /\ saved_col' = col
      /\ ~DispatchingHandler("s") => UNCHANGED <<saved_row, saved_col>>
      /\ DispatchingHandler("u") => row' = saved_row /\ col' = saved_col ]_vars

\* ESC[u has just put the cursor on a saved position outside the buffer
C5_Witness ==
  /\ pc = "scan"
  /\ line = CSI(<<"u">>)
  /\ i = Len(line)
  /\ row = saved_row /\ col = saved_col
  /\ row >= 1 \/ col >= 1
  /\ row >= Len(lines) \/ col > Len(CurLine)

\* C6: ESC[2J leaves exactly one empty line and the cursor at (0,0)
C6_EraseScreenReset ==
  [][ Dispatching(CSI(<<"2", "J">>)) =>
        lines' = << <<>> >> /\ row' = 0 /\ col' = 0 ]_vars

\* ESC[2J has just reset a buffer whose cursor had been saved below row 0
C6_Witness ==
  /\ pc = "scan"
  /\ line = CSI(<<"2", "J">>)
  /\ i = Len(line)
  /\ lines = << <<>> >> /\ row = 0 /\ col = 0
  /\ saved_row >= 1

\* C7: ESC[0K has the effect of ESC[K and ESC[0J the effect of ESC[J
\* (stated for the states whose cursor is not negative, where ESC[K and
\* ESC[J themselves complete)
C7_ZeroParameterErase ==
  [][ /\ Dispatching(CSI(<<"0", "K">>)) /\ row >= 0 /\ col >= 0 =>
           BecomesBuf(Dispatch(Buf, CSI(<<"K">>), Handler(CSI(<<"K">>))))
      /\ Dispatching(CSI(<<"0", "J">>)) /\ row >= 0 /\ col >= 0 =>
           BecomesBuf(Dispatch(Buf, CSI(<<"J">>), Handler(CSI(<<"J">>)))) ]_vars

\* C8: ESC[1J empties every line at and before the cursor row and keeps
\* every line after it, and the number of lines (stated for the states
\* whose cursor row is a line of the buffer)
C8_EraseFromStartOfScreen ==
  [][ Dispatching(CSI(<<"1", "J">>)) /\ row >= 0 /\ row < Len(lines) =>
        /\ Len(lines') = Len(lines)
        /\ \A k \in 1..Len(lines) :
             lines'[k] = IF k <= row + 1 THEN <<>> ELSE lines[k] ]_vars

\* C9: ESC[K cuts the current line to its first min(col, length) units and
\* changes neither the cursor nor any other line
C9_EraseToEndOfLine ==
  [][ Dispatching(CSI(<<"K">>)) =>
        /\ row' = row /\ col' = col
        /\ OthersKept(CurPos)
        /\ CurPos \in DOMAIN lines'
        /\ lines'[CurPos] = SubSeq(CurLine, 1, Min(col, Len(CurLine))) ]_vars

\* C10: BS with column > 0 moves the cursor one column left and removes the
\* unit at the new column, if there is one; BS with column 0 changes
\* nothing; the row and the other lines are kept in both cases
C10_DestructiveBackspace ==
  [][ DispatchingUnit("BS") =>
        /\ col > 0 =>
             /\ col' = col - 1 /\ row' = row
             /\ OthersKept(CurPos)
             /\ CurPos \in DOMAIN lines'
             /\ lines'[CurPos] = RemoveAt(CurLine, col)
             /\ Len(lines'[CurPos]) >= Len(CurLine) - 1
        /\ col = 0 => UNCHANGED <<lines, row, col, saved_row, saved_col>> ]_vars

\* BS has just removed a unit from the inside of a line
C10_Witness ==
  /\ pc = "scan"
  /\ line = <<"BS">>
  /\ i = 1
  /\ col >= 1
  /\ row >= 0 /\ row < Len(lines)
  /\ Len(lines[row + 1]) > col

\* s with its p-th unit (1-based) replaced by u
ReplaceAt(s, p, u) == [s EXCEPT ![p] = u]

\* the scan loop is about to write a unit as a literal
DispatchingLiteral == Scanning /\ At(line, i) \notin Controls

\* C11: a literal write replaces the unit at the cursor column when the
\* column is inside the line, else appends the unit to the line; no other
\* line changes; the column becomes min(col + 1, new length), same row
C11_LiteralWrite ==
  [][ DispatchingLiteral =>
        /\ row' = row
        /\ OthersKept(CurPos)
        /\ CurPos \in DOMAIN lines'
        /\ lines'[CurPos] =
             IF col >= 0 /\ col < Len(CurLine)
             THEN ReplaceAt(CurLine, col + 1, At(line, i))
             ELSE CurLine \o <<At(line, i)>>
        /\ col' = Min(col + 1, Len(lines'[CurPos])) ]_vars

\* C12: after cursor-up or cursor-down the column is at most the length of
\* the line at the destination row; cursor-up clamps the row at 0 and
\* cursor-down clamps it at the index of the last existing line
C12_VerticalReflow ==
  [][ /\ DispatchingHandler("A") =>
           /\ col' <= Len(CurLine')
           /\ row' = Max(0, row - Steps(MatchGroup))
      /\ DispatchingHandler("B") =>
           /\ col' <= Len(CurLine')
           /\ row' <= Len(lines) - 1
           /\ row' = Min(Len(lines) - 1, row + Steps(MatchGroup)) ]_vars

\* cursor-up has just arrived on a line shorter than the line below it,
\* with the column at the end of the shorter line
C12_Witness ==
  /\ pc = "scan"
  /\ line = CSI(<<"A">>)
  /\ i = Len(line)
  /\ row >= 0 /\ row + 2 <= Len(lines)
  /\ col = Len(lines[row + 1])
  /\ Len(lines[row + 2]) > col

\* C13: after cursor-right or cursor-left the column is at most the length
\* of the line at the cursor row, and cursor-left never goes below 0
C13_HorizontalClamp ==
  [][ /\ DispatchingHandler("C") => col' <= Len(CurLine')
      /\ DispatchingHandler("D") => col' <= Len(CurLine') /\ col' >= 0 ]_vars

\* the step changes neither the lines, the cursor nor the saved position,
\* stays in the scan loop and leaves the index at k
OnlyAdvancesTo(k) ==
  /\ UNCHANGED <<lines, row, col, saved_row, saved_col>>
  /\ pc' = pc
  /\ i' = k

\* the scan loop is about to dispatch an ESC that starts no sequence
DispatchingLoneEscape ==
  Scanning /\ At(line, i) = "ESC" /\ ~IsOsc /\ MatchEnd(line, i) = -1

\* the scan loop is about to dispatch ESC[<params><final> with a final byte
\* that no branch handles
DispatchingUnhandledCsi ==
  /\ IsSeq
  /\ MatchGroup[2] = "["
  /\ MatchGroup[Len(MatchGroup)] \notin {"A", "B", "C", "D", "s", "u", "K", "J", "H"}

\* C14: CR, BEL, NUL, a lone ESC and a CSI sequence with an unhandled final
\* byte change neither lines, cursor nor saved position and consume exactly
\* that unit or sequence (so CR LF acts as LF alone)
C14_InertUnits ==
  [][ /\ DispatchingUnit("CR") \/ DispatchingUnit("BEL") \/ DispatchingUnit("NUL")
           \/ DispatchingLoneEscape
         => OnlyAdvancesTo(i + 1)
      /\ DispatchingUnhandledCsi => OnlyAdvancesTo(i + Len(MatchGroup)) ]_vars

\* the colour sequence ESC[31m has just been consumed in the middle of a
\* line of a buffer of several lines
C14_Witness ==
  /\ pc = "scan"
  /\ line = CSI(<<"3", "1", "m">>)
  /\ i = Len(line)
  /\ Len(lines) >= 2
  /\ col >= 1

\* C15: nothing is written before the input is exhausted, and a completed
\* run has made exactly one write: the lines joined by LF, then one LF
C15_FlattenOnce ==
  /\ pc # "done" => output = <<>>
  /\ pc = "done" =>
       /\ i >= Len(line)
       /\ Len(output) = 1
       /\ Split(output[1], "LF") = Append(lines, <<>>)

\* a run over several chunks has completed with a buffer of several lines
C15_Witness ==
  /\ pc = "done"
  /\ nchunks >= 3
  /\ Len(lines) >= 2
  /\ \E k \in 1..Len(lines) : lines[k] # <<>>

\* the chunk has a BEL at or after index i + 2
HasBel == \E k \in (i + 2)..(Len(line) - 1) : At(line, k) = "BEL"

\* the index of the first such BEL
FirstBel ==
  CHOOSE k \in (i + 2)..(Len(line) - 1) :
    At(line, k) = "BEL" /\ \A j \in (i + 2)..(k - 1) : At(line, j) # "BEL"

\* C16: an OSC whose BEL is in the same chunk is discarded from the ESC
\* through the BEL, changes nothing, and scanning resumes right after the
\* BEL
C16_OscDiscard ==
  [][ IsOsc /\ HasBel => OnlyAdvancesTo(FirstBel + 1) ]_vars

\* an OSC has just been discarded in the middle of a line and the unit
\* after its BEL is the next to be scanned
C16_Witness ==
  /\ pc = "scan"
  /\ line = <<"ESC", "]", "a", "BEL", "b">>
  /\ i = 4
  /\ col >= 1

\* C17: an OSC with no BEL in its chunk discards the rest of the chunk,
\* its terminating LF included, and changes nothing; the scan keeps no
\* memory of it, so a printable unit of any later chunk is written to the
\* cursor's line
C17_OscAcrossChunks ==
  [][ /\ IsOsc /\ ~HasBel => OnlyAdvancesTo(Len(line))
      /\ DispatchingLiteral =>
           /\ pc' = "scan"
           /\ CurPos \in DOMAIN lines'
           /\ \E k \in 1..Len(lines'[CurPos]) : lines'[CurPos][k] = At(line, i) ]_vars

\* an unterminated OSC has just swallowed the LF of its line: the cursor is
\* still in the middle of the line it was on
C17_Witness ==
  /\ pc = "scan"
  /\ line = <<"ESC", "]", "a", "LF">>
  /\ i = Len(line)
  /\ col >= 1

\* C18: every dispatch step of the scan loop advances the index by at
\* least one unit and never beyond the chunk's length
C18_Progress ==
  [][ Scanning => i' >= i + 1 /\ i' <= Len(line) ]_vars

\* C19: cursor-down never leaves the cursor on a smaller row and cursor-up
\* never on a larger row (stated for the states whose row is not negative)
C19_VerticalDirection ==
  [][ /\ DispatchingHandler("B") /\ row >= 0 => row' >= row
      /\ DispatchingHandler("A") /\ row >= 0 => row' <= row ]_vars

\* the scan loop is about to dispatch a relative move, a save or a restore
DispatchingCursorOnly ==
  IsSeq /\ Handler(MatchGroup) \in {"A", "B", "C", "D", "s", "u"}

\* C20 as claimed: a relative move, a save or a restore leaves the buffer's
\* line sequence exactly as it was
C20_CursorOnlyKeepsLines ==
  [][ DispatchingCursorOnly => lines' = lines ]_vars

\* C20 as amended: a relative move, a save or a restore modifies and
\* removes no existing line; cursor-down, cursor-left, save and restore
\* leave the line sequence as it was, and cursor-right and cursor-up change
\* it only by appending empty lines up to the cursor's row, when the row is
\* past the last line
C20_CursorOnlyKeepsExistingLines ==
  [][ DispatchingCursorOnly =>
        /\ Len(lines') >= Len(lines)
        /\ SubSeq(lines', 1, Len(lines)) = lines
        /\ \A k \in (Len(lines) + 1)..Len(lines') : lines'[k] = <<>>
        /\ lines' # lines =>
             /\ Handler(MatchGroup) \in {"A", "C"}
             /\ row >= Len(lines)
             /\ Len(lines') = row' + 1 ]_vars

\* cursor-right has just been processed on a restored row, which is now the
\* last line of the buffer
C20_Witness ==
  /\ pc = "scan"
  /\ line = CSI(<<"C">>)
  /\ i = Len(line)
  /\ row >= 1
  /\ saved_row = row
  /\ Len(lines) = row + 1
  /\ lines[row + 1] = <<>>

====
